---- MODULE Spec2Model ----
(***************************************************************************)
(* Model of the conversation reconstruction pipeline:                      *)
(*   scripts/py/v10_stitch_rows.py  (sequencer: part files -> one stream)  *)
(*   scripts/py/v12_clean_rows.py   (noise tally, entry cleaner, grouper,  *)
(*                                   the two dedup stages, field strip)    *)
(*                                                                         *)
(* Text is modelled at word level: a line is a sequence of words (the      *)
(* whitespace-separated pieces of the Python string), a content string is  *)
(* a sequence of lines (the pieces between "\n").  The partner's display   *)
(* name is one word.  Python dict objects are modelled as cells of a heap  *)
(* so that a list of messages is a list of references, as in the code.     *)
(***************************************************************************)
EXTENDS Integers, Sequences, FiniteSets, TLC

VARIABLES
    raw,         \* raw_rows: the stitched stream read by main()
    pc,          \* position of main()
    noise_set,   \* main(): noise_set
    idx,         \* main(): position of the cleaning loop in raw_rows
    current_ts,  \* main(): current_ts threaded through clean_entry
    heap,        \* the message dicts, one cell per raw entry
    cleaned,     \* main(): cleaned                       (list of references)
    grouped,     \* main(): grouped after group_messages
    deduped,     \* main(): grouped after dedupe_consecutive
    final,       \* main(): grouped after dedupe_capture_artifacts
    output,      \* main(): grouped after strip_internal_fields (what is dumped)
    files,       \* sequencer: the part files found by the glob, in glob order
    parts,       \* load_parts(): parts
    stitched,    \* stitch(): stitched
    candidates,  \* the files INPUT_CANDIDATES on disk: whether there, and rows
    input_file,  \* main(): input_file (position in INPUT_CANDIDATES, 0 = None)
    error        \* the exception that ended main(), <<>> when none

vars == <<raw, pc, noise_set, idx, current_ts, heap, cleaned, grouped,
          deduped, final, output, files, parts, stitched, candidates,
          input_file, error>>

-----------------------------------------------------------------------------
(* Bounds *)

MaxLen == 4          \* longest raw stream explored
MaxFiles == 3        \* most part files explored by the sequencer

-----------------------------------------------------------------------------
(* Program constants *)

PARTNER_NAME == "Ban nho Xoaii"      \* the display name, one word of the model
NOISE_ATTACHMENT_THRESHOLD == 25

INPUT_CANDIDATES == << "final_rows.json", "v10_final_rows.json" >>

None == <<>>                          \* Python None / "" for a timestamp label
UnknownTime == <<"Unknown", "Time">>  \* the sentinel "Unknown Time"
Missing == "<missing>"                \* a string key that is not in the dict
NoName == <<>>                        \* a name key that is not in the dict

IGNORE_EXACT ==
    { <<"Enter">>, <<"Seen">>, <<"Sent">>, <<"You", "sent">>, <<"You">>,
      <<"Media">>, <<"Double", "tap", "to", "like">>, <<PARTNER_NAME>> }

IGNORE_PREFIXES ==
    { <<"You", "replied", "to">>, <<"You", "reacted", "to">>,
      <<"You", "unsent">>, <<"You", "removed">>, <<"You", "changed">>,
      <<"Partner", "replied", "to">>, <<PARTNER_NAME, "replied", "to">> }

IGNORE_CONTAINS ==
    { <<"replied", "to", "you">>, <<"Original", "message:">> }

META_NOISE_CONTAINS ==
    { <<"Meta", "AI">>,
      <<"Use", "the", "Messenger", "mobile", "app", "to", "see", "it">> }

\* Lines of the vocabulary that TIMESTAMP_REGEX matches (the examples of the
\* source comment) and that TIME_ONLY_REGEX matches.
TimestampLines ==
    { <<"18", "Dec", "2025,", "16:19">>, <<"Today", "at", "19:30">>,
      <<"Mon", "12:00", "PM">> }

TimeOnlyLines == { <<"16:19">>, <<"19:30">>, <<"12:00">> }

-----------------------------------------------------------------------------
(* File and directory names.  A name is the sequence of its maximal runs    *)
(* of digits and of other characters; a file stem is the sequence of the    *)
(* names between its "_" characters.                                        *)

D(n) == [digit |-> TRUE, n |-> n, t |-> ""]
T(t) == [digit |-> FALSE, n |-> 0, t |-> t]

\* re.search(r"(\d+)", name): the first run of digits, as a sequence of 0 or 1
RECURSIVE FirstDigits(_)
FirstDigits(name) ==
    IF name = <<>> THEN <<>>
    ELSE IF Head(name).digit THEN <<Head(name).n>>
    ELSE FirstDigits(Tail(name))

\* token.isdigit()
IsDigit(token) == Len(token) = 1 /\ token[1].digit

\* for token in reversed(stem.split('_')): if token.isdigit(): return int(token)
RECURSIVE LastDigitToken(_)
LastDigitToken(tokens) ==
    IF tokens = <<>> THEN <<>>
    ELSE IF IsDigit(tokens[Len(tokens)]) THEN <<tokens[Len(tokens)][1].n>>
    ELSE LastDigitToken(SubSeq(tokens, 1, Len(tokens) - 1))

RECURSIVE Concat(_)
Concat(ss) == IF ss = <<>> THEN <<>> ELSE Head(ss) \o Concat(Tail(ss))

part_number(path) ==
    LET tok == LastDigitToken(path.stem)
        m == FirstDigits(Concat(path.stem))
    IN IF tok # <<>> THEN tok[1]
       ELSE IF m # <<>> THEN m[1]
       ELSE 0

batch_number(path) ==
    LET m == FirstDigits(path.dir)
    IN IF m # <<>> THEN m[1] ELSE 0

-----------------------------------------------------------------------------
(* Sequencer: v10_stitch_rows.py *)

DEDUP == FALSE

KeyOf(path) == <<batch_number(path), part_number(path)>>

\* tuple comparison a <= b of Python
KeyLeq(a, b) == a[1] < b[1] \/ (a[1] = b[1] /\ a[2] <= b[2])

\* sorted() is stable: a file goes behind every file whose key is not larger
RECURSIVE InsertSorted(_, _)
InsertSorted(sorted, f) ==
    IF sorted = <<>> THEN <<f>>
    ELSE IF KeyLeq(KeyOf(Head(sorted).path), KeyOf(f.path))
         THEN <<Head(sorted)>> \o InsertSorted(Tail(sorted), f)
         ELSE <<f>> \o sorted

\* the files are taken in glob order
SortFilesGlobOrder(fs) == fs

RECURSIVE SortFiles(_)
SortFiles(fs) ==
    IF fs = <<>> THEN <<>>
    ELSE InsertSorted(SortFiles(SubSeq(fs, 1, Len(fs) - 1)), fs[Len(fs)])

\* json.load succeeded and isinstance(data, list)
Loadable(f) == f.kind = "list"

\* a file that cannot be loaded ends the loop
RECURSIVE LoadFromAbort(_)
LoadFromAbort(fs) ==
    IF fs = <<>> THEN <<>>
    ELSE IF Loadable(Head(fs))
         THEN <<[path |-> Head(fs).path, entries |-> Head(fs).rows]>>
              \o LoadFromAbort(Tail(fs))
         ELSE <<>>

RECURSIVE LoadFrom(_)
LoadFrom(fs) ==
    IF fs = <<>> THEN <<>>
    ELSE IF Loadable(Head(fs))
         THEN <<[path |-> Head(fs).path, entries |-> Head(fs).rows]>>
              \o LoadFrom(Tail(fs))
         ELSE LoadFrom(Tail(fs))

load_parts(fs) == LoadFrom(SortFiles(fs))

StitchedRow(path, row, i) ==
    [sender |-> IF row.sender = Missing THEN "Unknown" ELSE row.sender,
     content |-> row.raw_text,
     media_urls |-> row.media_urls,
     source_file |-> path,
     batch |-> path.dir,
     part |-> part_number(path),
     index |-> i]

DedupKey(e) == <<e.sender, e.content, e.media_urls, e.batch, e.part, e.index>>

\* the loop "for i, row in enumerate(entries)"
RECURSIVE StitchRows(_, _, _, _)
StitchRows(path, entries, i, acc) ==
    IF i >= Len(entries) THEN acc
    ELSE LET e == StitchedRow(path, entries[i + 1], i)
         IN IF DEDUP /\ \E k \in 1..Len(acc) : DedupKey(acc[k]) = DedupKey(e)
            THEN StitchRows(path, entries, i + 1, acc)
            ELSE StitchRows(path, entries, i + 1, Append(acc, e))

\* the loop "for path, entries in parts"
RECURSIVE StitchParts(_, _)
StitchParts(ps, acc) ==
    IF ps = <<>> THEN acc
    ELSE StitchParts(Tail(ps),
                     StitchRows(Head(ps).path, Head(ps).entries, 0, acc))

-----------------------------------------------------------------------------
(* Strings *)

\* str.lower() on the words of the vocabulary
LowerWord(w) ==
    CASE w = "You" -> "you"
      [] w = "Partner" -> "partner"
      [] w = PARTNER_NAME -> "ban nho xoaii"
      [] w = "Original" -> "original"
      [] w = "Meta" -> "meta"
      [] w = "AI" -> "ai"
      [] w = "Use" -> "use"
      [] w = "Messenger" -> "messenger"
      [] w = "Replied" -> "replied"
      [] w = "YOU" -> "you"
      [] OTHER -> w

Lower(line) == [k \in 1..Len(line) |-> LowerWord(line[k])]

StartsWith(line, prefix) ==
    /\ Len(line) >= Len(prefix)
    /\ SubSeq(line, 1, Len(prefix)) = prefix

Contains(line, token) ==
    \E k \in 1..(Len(line) - Len(token) + 1) :
        SubSeq(line, k, k + Len(token) - 1) = token

Drop(line, n) == SubSeq(line, n + 1, Len(line))

RECURSIVE Without(_, _)
Without(s, w) ==
    IF s = <<>> THEN <<>>
    ELSE IF Head(s) = w THEN Without(Tail(s), w)
    ELSE <<Head(s)>> \o Without(Tail(s), w)

Range(s) == {s[k] : k \in 1..Len(s)}

\* raw_content.replace("Enter", "\n") followed by splitlines(), for one line
RECURSIVE SplitEnter(_)
SplitEnter(line) ==
    IF \A k \in 1..Len(line) : line[k] # "Enter" THEN <<line>>
    ELSE LET k == CHOOSE j \in 1..Len(line) :
                      /\ line[j] = "Enter"
                      /\ \A h \in 1..(j - 1) : line[h] # "Enter"
         IN <<SubSeq(line, 1, k - 1)>> \o SplitEnter(Drop(line, k))

strip_leading_label(line) ==
    IF StartsWith(line, <<"You", "sent">>) THEN Drop(line, 2)
    ELSE IF StartsWith(line, <<"You">>) THEN Drop(line, 1)
    ELSE IF StartsWith(line, <<PARTNER_NAME>>) THEN Drop(line, 1)
    ELSE line

is_timestamp(line) == line \in TimestampLines

-----------------------------------------------------------------------------
(* Attachment URLs.  A URL is a record: scheme, whether it contains         *)
(* "static.xx.fbcdn.net/images/emoji", the text before "?", the query      *)
(* ("" when the URL has no "?"), and whether whitespace trails it.          *)

NoQuery == ""

Url(scheme, emoji, base, query) ==
    [scheme |-> scheme, emoji |-> emoji, base |-> base, query |-> query,
     pad |-> FALSE]

IsStr(u) == u.scheme # "nonstr"
StartsWithBlob(u) == u.scheme = "blob"
StartsWithHttp(u) == u.scheme \in {"http", "https"}

normalize_url(url) ==
    LET u == [url EXCEPT !.pad = FALSE]
    IN IF u.emoji THEN [u EXCEPT !.query = NoQuery] ELSE u

noise_key(url) ==
    IF url.query = NoQuery THEN url
    ELSE [url EXCEPT !.query = NoQuery, !.pad = FALSE]

Counted(u) ==
    /\ IsStr(u)
    /\ ~StartsWithBlob(u)
    /\ ~u.emoji
    /\ StartsWithHttp(u)

\* all media_urls of the corpus, in order
RECURSIVE AllUrls(_)
AllUrls(rows) ==
    IF rows = <<>> THEN <<>> ELSE Head(rows).media_urls \o AllUrls(Tail(rows))

\* Counter: key -> number of counted occurrences
collect_attachment_counts(rows) ==
    LET all == AllUrls(rows)
        keys == {noise_key(all[k]) : k \in {j \in 1..Len(all) : Counted(all[j])}}
    IN [key \in keys |->
           Cardinality({k \in 1..Len(all) :
                           Counted(all[k]) /\ noise_key(all[k]) = key})]

NoiseSetOf(rows) ==
    LET counts == collect_attachment_counts(rows)
    IN {key \in DOMAIN counts : counts[key] >= NOISE_ATTACHMENT_THRESHOLD}

RECURSIVE FilterFrom(_, _, _)
FilterFrom(urls, noise, attachments) ==
    IF urls = <<>> THEN attachments
    ELSE LET url == Head(urls)
             canon == normalize_url(url)
         IN IF \/ ~Counted(url)
               \/ canon \in noise
               \/ canon \in Range(attachments)
            THEN FilterFrom(Tail(urls), noise, attachments)
            ELSE FilterFrom(Tail(urls), noise, Append(attachments, canon))

filter_attachments(urls, noise) == FilterFrom(urls, noise, <<>>)

-----------------------------------------------------------------------------
(* Entry Cleaner *)

MissingNum == 0 - 1                   \* a numeric key that is not in the dict

RECURSIVE SplitLines(_)
SplitLines(content) ==
    IF content = <<>> THEN <<>>
    ELSE SplitEnter(Head(content)) \o SplitLines(Tail(content))

Discarded(line) ==
    \/ line \in TimeOnlyLines
    \/ line \in IGNORE_EXACT
    \/ \E prefix \in IGNORE_PREFIXES : StartsWith(Lower(line), Lower(prefix))
    \/ \E token \in IGNORE_CONTAINS : Contains(Lower(line), Lower(token))
    \/ \E token \in META_NOISE_CONTAINS : Contains(Lower(line), Lower(token))

\* the loop of clean_entry over the lines: [ts, lines]
RECURSIVE CleanLines(_, _, _)
CleanLines(raw_lines, new_ts, lines) ==
    IF raw_lines = <<>> THEN [ts |-> new_ts, lines |-> lines]
    ELSE LET line == strip_leading_label(Head(raw_lines))
             rest == Tail(raw_lines)
         IN IF line = <<>> THEN CleanLines(rest, new_ts, lines)
            ELSE IF is_timestamp(line) THEN CleanLines(rest, line, lines)
            ELSE IF Discarded(line) THEN CleanLines(rest, new_ts, lines)
            ELSE CleanLines(rest, new_ts, Append(lines, line))

NoMessageNever(lines, attachments) == FALSE

NoMessage(lines, attachments) == lines = <<>> /\ attachments = <<>>

\* an entry that yields no message hands back the timestamp it was given
clean_entry_forgets(entry, ts, noise) ==
    LET r == CleanLines(SplitLines(entry.content), ts, <<>>)
        attachments == filter_attachments(entry.media_urls, noise)
        sender == IF entry.sender = Missing THEN "Unknown"
                  ELSE IF entry.sender = "Partner" THEN PARTNER_NAME
                  ELSE entry.sender
    IN [ts |-> IF NoMessage(r.lines, attachments) THEN ts ELSE r.ts,
        has_msg |-> ~NoMessage(r.lines, attachments),
        msg |-> [timestamp |-> IF r.ts = None THEN UnknownTime ELSE r.ts,
                 sender |-> sender,
                 content |-> r.lines,
                 type |-> IF r.lines # <<>> THEN "text" ELSE "media",
                 _source_batch |-> entry.batch,
                 _source_part |-> entry.part,
                 _source_index |-> entry.index,
                 has_attachments |-> attachments # <<>>,
                 attachments |-> attachments]]

\* the role "Partner" is not replaced by the display name
clean_entry_keeps_role(entry, ts, noise) ==
    LET r == CleanLines(SplitLines(entry.content), ts, <<>>)
        attachments == filter_attachments(entry.media_urls, noise)
        sender == IF entry.sender = Missing THEN "Unknown" ELSE entry.sender
    IN [ts |-> r.ts,
        has_msg |-> ~NoMessage(r.lines, attachments),
        msg |-> [timestamp |-> IF r.ts = None THEN UnknownTime ELSE r.ts,
                 sender |-> sender,
                 content |-> r.lines,
                 type |-> IF r.lines # <<>> THEN "text" ELSE "media",
                 _source_batch |-> entry.batch,
                 _source_part |-> entry.part,
                 _source_index |-> entry.index,
                 has_attachments |-> attachments # <<>>,
                 attachments |-> attachments]]

\* clean_entry: [ts, has_msg, msg]
clean_entry(entry, ts, noise) ==
    LET r == CleanLines(SplitLines(entry.content), ts, <<>>)
        attachments == filter_attachments(entry.media_urls, noise)
        sender == IF entry.sender = Missing THEN "Unknown"
                  ELSE IF entry.sender = "Partner" THEN PARTNER_NAME
                  ELSE entry.sender
    IN [ts |-> r.ts,
        has_msg |-> ~NoMessage(r.lines, attachments),
        msg |-> [timestamp |-> IF r.ts = None THEN UnknownTime ELSE r.ts,
                 sender |-> sender,
                 content |-> r.lines,
                 type |-> IF r.lines # <<>> THEN "text" ELSE "media",
                 _source_batch |-> entry.batch,
                 _source_part |-> entry.part,
                 _source_index |-> entry.index,
                 has_attachments |-> attachments # <<>>,
                 attachments |-> attachments]]

\* msg.get("attachments") or []
Atts(m) == IF m.has_attachments THEN m.attachments ELSE <<>>

-----------------------------------------------------------------------------
(* Grouper *)

\* every URL is appended, known or not
MergeAttachmentsAll(existing, atts) == existing \o atts

\* the loop "for att in ...: if att not in existing: ....append(att)"
RECURSIVE MergeAttachments(_, _)
MergeAttachments(existing, atts) ==
    IF atts = <<>> THEN existing
    ELSE IF Head(atts) \in Range(existing)
         THEN MergeAttachments(existing, Tail(atts))
         ELSE MergeAttachments(Append(existing, Head(atts)), Tail(atts))

\* last.setdefault("attachments", []) receives the new URLs of atts
WithAttachments(last, atts) ==
    LET merged == MergeAttachments(Atts(last), atts)
    IN IF merged = Atts(last) THEN last
       ELSE [last EXCEPT !.attachments = merged, !.has_attachments = TRUE]

\* the contents are joined by "\n" even when one of them is empty
MergeIntoAlwaysJoin(last, msg) ==
    LET side(c) == IF c = <<>> THEN <<<<>>>> ELSE c
        a == WithAttachments(
                 [last EXCEPT !.content = side(last.content) \o side(msg.content)],
                 Atts(msg))
    IN IF a.timestamp = UnknownTime /\ msg.timestamp # UnknownTime
       THEN [a EXCEPT !.timestamp = msg.timestamp]
       ELSE a

\* the block takes every concrete timestamp that comes
MergeIntoLatest(last, msg) ==
    LET c == IF msg.content # <<>>
             THEN IF last.content # <<>> THEN last.content \o msg.content
                  ELSE msg.content
             ELSE last.content
        a == WithAttachments([last EXCEPT !.content = c], Atts(msg))
    IN IF msg.timestamp # UnknownTime
       THEN [a EXCEPT !.timestamp = msg.timestamp]
       ELSE a

\* the block takes the source of the message merged into it
MergeIntoTakesSource(last, msg) ==
    LET c == IF msg.content # <<>>
             THEN IF last.content # <<>> THEN last.content \o msg.content
                  ELSE msg.content
             ELSE last.content
        a == WithAttachments([last EXCEPT !.content = c,
                                          !._source_batch = msg._source_batch,
                                          !._source_part = msg._source_part,
                                          !._source_index = msg._source_index],
                             Atts(msg))
    IN IF a.timestamp = UnknownTime /\ msg.timestamp # UnknownTime
       THEN [a EXCEPT !.timestamp = msg.timestamp]
       ELSE a

\* the body of the branch msg["sender"] == last["sender"]
MergeInto(last, msg) ==
    LET c == IF msg.content # <<>>
             THEN IF last.content # <<>> THEN last.content \o msg.content
                  ELSE msg.content
             ELSE last.content
        a == WithAttachments([last EXCEPT !.content = c], Atts(msg))
    IN IF a.timestamp = UnknownTime /\ msg.timestamp # UnknownTime
       THEN [a EXCEPT !.timestamp = msg.timestamp]
       ELSE a

\* "last = grouped[0]": a message is compared with the first block
RECURSIVE GroupFromFirst(_, _, _)
GroupFromFirst(h, messages, g) ==
    IF messages = <<>> THEN [heap |-> h, out |-> g]
    ELSE LET m == Head(messages)
             l == g[1]
         IN IF h[m].sender = h[l].sender
            THEN GroupFromFirst([h EXCEPT ![l] = MergeInto(h[l], h[m])],
                                Tail(messages), g)
            ELSE GroupFromFirst(h, Tail(messages), Append(g, m))

RECURSIVE GroupFrom(_, _, _)
GroupFrom(h, messages, g) ==
    IF messages = <<>> THEN [heap |-> h, out |-> g]
    ELSE LET m == Head(messages)
             l == g[Len(g)]
         IN IF h[m].sender = h[l].sender
            THEN GroupFrom([h EXCEPT ![l] = MergeInto(h[l], h[m])],
                           Tail(messages), g)
            ELSE GroupFrom(h, Tail(messages), Append(g, m))

group_messages(h, messages) ==
    IF messages = <<>> THEN [heap |-> h, out |-> <<>>]
    ELSE GroupFrom(h, Tail(messages), <<Head(messages)>>)

-----------------------------------------------------------------------------
(* Deduplicator *)

Count(s, x) == Cardinality({k \in 1..Len(s) : s[k] = x})

\* sorted(a) == sorted(b)
SortedEqual(a, b) ==
    /\ Len(a) = Len(b)
    /\ \A x \in Range(a) \cup Range(b) : Count(a, x) = Count(b, x)

\* the attachment lists are compared as they are
SameMessageOrdered(m, prev) ==
    /\ m.sender = prev.sender
    /\ m.content = prev.content
    /\ Atts(m) = Atts(prev)

SameMessage(m, prev) ==
    /\ m.sender = prev.sender
    /\ m.content = prev.content
    /\ SortedEqual(Atts(m), Atts(prev))

RECURSIVE ConsecutiveFrom(_, _, _)
ConsecutiveFrom(h, messages, out) ==
    IF messages = <<>> THEN out
    ELSE IF SameMessage(h[Head(messages)], h[out[Len(out)]])
         THEN ConsecutiveFrom(h, Tail(messages), out)
         ELSE ConsecutiveFrom(h, Tail(messages), Append(out, Head(messages)))

\* out.insert(0, msg) in place of out.append(msg)
dedupe_consecutive_reversed(h, messages) ==
    IF messages = <<>> THEN <<>>
    ELSE LET out == ConsecutiveFrom(h, Tail(messages), <<Head(messages)>>)
         IN [k \in 1..Len(out) |-> out[Len(out) + 1 - k]]

dedupe_consecutive(h, messages) ==
    IF messages = <<>> THEN <<>>
    ELSE ConsecutiveFrom(h, Tail(messages), <<Head(messages)>>)

\* the display name is left in the text
norm_text_keeps_name(t) == Concat(t)

norm_text(t) == Without(Concat(t), PARTNER_NAME)

BatchOf(m) ==
    IF m._source_batch = NoName THEN <<T("unknown")>> ELSE m._source_batch

\* one table for all batches
SeenKeyAnyBatch(m) == <<<<T("unknown")>>, m.sender, norm_text(m.content)>>

\* batch_seen is a table (batch, sender, text_key) -> reference
SeenKey(m) == <<BatchOf(m), m.sender, norm_text(m.content)>>

\* a repeat is dropped and its key forgotten
RECURSIVE ArtifactsFromForget(_, _, _, _)
ArtifactsFromForget(h, messages, out, batch_seen) ==
    IF messages = <<>> THEN [heap |-> h, out |-> out]
    ELSE LET m == Head(messages)
             key == SeenKey(h[m])
         IN IF key \in DOMAIN batch_seen
            THEN LET p == batch_seen[key]
                 IN ArtifactsFromForget(
                        [h EXCEPT ![p] = WithAttachments(h[p], Atts(h[m]))],
                        Tail(messages), out,
                        [x \in DOMAIN batch_seen \ {key} |-> batch_seen[x]])
            ELSE ArtifactsFromForget(h, Tail(messages), Append(out, m),
                                     batch_seen @@ (key :> m))

\* a repeat is merged into the earlier message, which is appended once more
RECURSIVE ArtifactsFromReemit(_, _, _, _)
ArtifactsFromReemit(h, messages, out, batch_seen) ==
    IF messages = <<>> THEN [heap |-> h, out |-> out]
    ELSE LET m == Head(messages)
             key == SeenKey(h[m])
         IN IF key \in DOMAIN batch_seen
            THEN LET p == batch_seen[key]
                 IN ArtifactsFromReemit(
                        [h EXCEPT ![p] = WithAttachments(h[p], Atts(h[m]))],
                        Tail(messages), Append(out, p), batch_seen)
            ELSE ArtifactsFromReemit(h, Tail(messages), Append(out, m),
                                     batch_seen @@ (key :> m))

RECURSIVE ArtifactsFrom(_, _, _, _)
ArtifactsFrom(h, messages, out, batch_seen) ==
    IF messages = <<>> THEN [heap |-> h, out |-> out]
    ELSE LET m == Head(messages)
             key == SeenKey(h[m])
         IN IF key \in DOMAIN batch_seen
            THEN LET p == batch_seen[key]
                 IN ArtifactsFrom([h EXCEPT ![p] = WithAttachments(h[p], Atts(h[m]))],
                                  Tail(messages), out, batch_seen)
            ELSE ArtifactsFrom(h, Tail(messages), Append(out, m),
                               batch_seen @@ (key :> m))

dedupe_capture_artifacts(h, messages) ==
    ArtifactsFrom(h, messages, <<>>, <<>>)

\* _source_index is not popped
StripMessageKeepsIndex(m) ==
    [m EXCEPT !._source_batch = NoName, !._source_part = MissingNum]

StripMessage(m) ==
    [m EXCEPT !._source_batch = NoName,
              !._source_part = MissingNum,
              !._source_index = MissingNum]

strip_internal_fields(h, messages) ==
    [id \in DOMAIN h |-> IF id \in Range(messages) THEN StripMessage(h[id])
                         ELSE h[id]]

-----------------------------------------------------------------------------
(* main() of v12_clean_rows.py *)

\* a file on disk with these rows, and a path where there is no file
OnDisk(rows) == [exists |-> TRUE, rows |-> rows]
NoFile == [exists |-> FALSE, rows |-> <<>>]

\* the loop without its break: the last candidate that is there wins
RECURSIVE LastExisting(_, _)
LastExisting(disk, k) ==
    IF k > Len(INPUT_CANDIDATES) THEN 0
    ELSE LET later == LastExisting(disk, k + 1)
         IN IF later # 0 THEN later
            ELSE IF disk[k].exists THEN k
            ELSE 0

\* the loop "for candidate in INPUT_CANDIDATES: if candidate.exists(): ... break"
\* from position k on: the position found, 0 for None
RECURSIVE FirstExisting(_, _)
FirstExisting(disk, k) ==
    IF k > Len(INPUT_CANDIDATES) THEN 0
    ELSE IF disk[k].exists THEN k
    ELSE FirstExisting(disk, k + 1)

\* the choice of the input file and json.load, or FileNotFoundError
OpenInput ==
    /\ pc = "start"
    /\ LET found == FirstExisting(candidates, 1)
       IN IF found = 0
          THEN /\ error' = INPUT_CANDIDATES
               /\ pc' = "error"
               /\ UNCHANGED <<raw, input_file>>
          ELSE /\ input_file' = found
               /\ raw' = candidates[found].rows
               /\ pc' = "count"
               /\ UNCHANGED error
    /\ UNCHANGED <<noise_set, idx, current_ts, heap, cleaned, grouped, deduped,
                   final, output, files, parts, stitched, candidates>>

CollectNoise ==
    /\ pc = "count"
    /\ noise_set' = NoiseSetOf(raw)
    /\ pc' = "clean"
    /\ UNCHANGED <<raw, idx, current_ts, heap, cleaned, grouped, deduped,
                   final, output, files, parts, stitched,
                   candidates, input_file, error>>

\* the timestamp that clean_entry returns is not carried to the next entry
CleanStepLosesTimestamp ==
    /\ pc = "clean"
    /\ idx <= Len(raw)
    /\ LET r == clean_entry(raw[idx], None, noise_set)
       IN /\ current_ts' = None
          /\ IF r.has_msg
             THEN /\ heap' = heap @@ (idx :> r.msg)
                  /\ cleaned' = Append(cleaned, idx)
             ELSE UNCHANGED <<heap, cleaned>>
    /\ idx' = idx + 1
    /\ UNCHANGED <<raw, pc, noise_set, grouped, deduped, final, output,
                   files, parts, stitched,
                   candidates, input_file, error>>

\* one iteration of "for entry in raw_rows"
CleanStep ==
    /\ pc = "clean"
    /\ idx <= Len(raw)
    /\ LET r == clean_entry(raw[idx], current_ts, noise_set)
       IN /\ current_ts' = r.ts
          /\ IF r.has_msg
             THEN /\ heap' = heap @@ (idx :> r.msg)
                  /\ cleaned' = Append(cleaned, idx)
             ELSE UNCHANGED <<heap, cleaned>>
    /\ idx' = idx + 1
    /\ UNCHANGED <<raw, pc, noise_set, grouped, deduped, final, output,
                   files, parts, stitched,
                   candidates, input_file, error>>

Group ==
    /\ pc = "clean"
    /\ idx > Len(raw)
    /\ LET r == group_messages(heap, cleaned)
       IN /\ heap' = r.heap
          /\ grouped' = r.out
    /\ pc' = "dedupe"
    /\ UNCHANGED <<raw, noise_set, idx, current_ts, cleaned, deduped, final,
                   output, files, parts, stitched,
                   candidates, input_file, error>>

DedupeConsecutive ==
    /\ pc = "dedupe"
    /\ deduped' = dedupe_consecutive(heap, grouped)
    /\ pc' = "artifacts"
    /\ UNCHANGED <<raw, noise_set, idx, current_ts, heap, cleaned, grouped,
                   final, output, files, parts, stitched,
                   candidates, input_file, error>>

DedupeArtifacts ==
    /\ pc = "artifacts"
    /\ LET r == dedupe_capture_artifacts(heap, deduped)
       IN /\ heap' = r.heap
          /\ final' = r.out
    /\ pc' = "strip"
    /\ UNCHANGED <<raw, noise_set, idx, current_ts, cleaned, grouped, deduped,
                   output, files, parts, stitched,
                   candidates, input_file, error>>

Strip ==
    /\ pc = "strip"
    /\ heap' = strip_internal_fields(heap, final)
    /\ output' = final
    /\ pc' = "done"
    /\ UNCHANGED <<raw, noise_set, idx, current_ts, cleaned, grouped, deduped,
                   final, files, parts, stitched,
                   candidates, input_file, error>>

-----------------------------------------------------------------------------
(* stitch() of v10_stitch_rows.py *)

LoadParts ==
    /\ pc = "load"
    /\ parts' = load_parts(files)
    /\ pc' = "stitch"
    /\ UNCHANGED <<raw, noise_set, idx, current_ts, heap, cleaned, grouped,
                   deduped, final, output, files, stitched,
                   candidates, input_file, error>>

Stitch ==
    /\ pc = "stitch"
    /\ stitched' = StitchParts(parts, <<>>)
    /\ pc' = "write"
    /\ UNCHANGED <<raw, noise_set, idx, current_ts, heap, cleaned, grouped,
                   deduped, final, output, files, parts,
                   candidates, input_file, error>>

\* json.dump(stitched, f): final_rows.json is what main() of the cleaner loads
\* it is the first of INPUT_CANDIDATES
WriteRows ==
    /\ pc = "write"
    /\ candidates' = [candidates EXCEPT ![1] = OnDisk(stitched)]
    /\ input_file' = 1
    /\ raw' = stitched
    /\ pc' = "count"
    /\ UNCHANGED <<noise_set, idx, current_ts, heap, cleaned, grouped,
                   deduped, final, output, files, parts, stitched, error>>

-----------------------------------------------------------------------------
(* Inputs *)

Ts1 == <<"18", "Dec", "2025,", "16:19">>
Ts2 == <<"Today", "at", "19:30">>
Img1 == Url("https", FALSE, "scontent/img1", NoQuery)
Img2 == Url("https", FALSE, "scontent/img2", "oh=2")
BlobUrl == Url("blob", FALSE, "blob:1", NoQuery)
EmojiUrl == Url("https", TRUE, "static/emoji/1f600", "v=1")
Avatar == Url("https", FALSE, "scontent/avatar", NoQuery)
AvatarQ == Url("https", FALSE, "scontent/avatar", "s=40")

Row(sender, content, media_urls) ==
    [sender |-> sender, content |-> content, media_urls |-> media_urls]

\* the shapes of raw rows the streams are built from
RowPool ==
    { Row("Partner", <<<<"hello">>>>, <<>>),
      Row("Partner", <<<<"hello">>>>, <<Img1>>),
      Row("Partner", <<<<"Seen">>>>, <<Img2, BlobUrl>>),
      Row("You", <<<<"ok">>>>, <<>>),
      Row("You", <<<<"You", "sent">>, <<"16:19">>, Ts2>>, <<EmojiUrl>>) }

BatchA == <<T("batch"), D(1)>>
BatchB == <<T("batch"), D(2)>>
StemPart1 == <<<<T("messenger")>>, <<T("row")>>, <<T("part")>>, <<D(1)>>>>

Path(dir, stem) == [dir |-> dir, stem |-> stem]

\* rows 1..k come from the one part file of batch1, the others from batch2
Entry(row, pos, k) ==
    [sender |-> row.sender, content |-> row.content,
     media_urls |-> row.media_urls,
     source_file |-> Path(IF pos <= k THEN BatchA ELSE BatchB, StemPart1),
     batch |-> IF pos <= k THEN BatchA ELSE BatchB,
     part |-> part_number(Path(BatchA, StemPart1)),
     index |-> IF pos <= k THEN pos - 1 ELSE pos - k - 1]

Streams(pool, maxlen) ==
    UNION { { [pos \in 1..n |-> Entry(f[pos], pos, k)] :
                f \in [1..n -> pool], k \in 0..n } : n \in 0..maxlen }

InitMain(stream) ==
    /\ raw = stream
    /\ pc = "count"
    /\ noise_set = {}
    /\ idx = 1
    /\ current_ts = None
    /\ heap = <<>>
    /\ cleaned = <<>>
    /\ grouped = <<>>
    /\ deduped = <<>>
    /\ final = <<>>
    /\ output = <<>>
    /\ files = <<>>
    /\ parts = <<>>
    /\ stitched = <<>>
    /\ candidates = <<OnDisk(stream), NoFile>>
    /\ input_file = 1
    /\ error = <<>>

\* Part files
PartRow(sender, raw_text, media_urls) ==
    [sender |-> sender, raw_text |-> raw_text, media_urls |-> media_urls]

Stem(last) == <<<<T("messenger")>>, <<T("row")>>, <<T("part")>>, last>>
StemPart2 == Stem(<<D(2)>>)
StemPart2Copy == Stem(<<D(2), T(" ("), D(1), T(")")>>)
StemNoDigits == <<<<T("messenger")>>, <<T("row")>>, <<T("part")>>>>
DirNoDigits == <<T("raw")>>

PathPool ==
    { Path(BatchA, StemPart1), Path(BatchA, StemPart2),
      Path(BatchA, StemPart2Copy), Path(BatchB, StemPart1),
      Path(DirNoDigits, StemNoDigits) }

DataPool ==
    { [kind |-> "list",
       rows |-> <<PartRow(Missing, <<<<"hello">>>>, <<>>),
                  PartRow("You", <<<<"ok">>>>, <<Img1>>)>>],
      [kind |-> "nonlist", rows |-> <<>>],
      [kind |-> "invalid", rows |-> <<>>] }

File(path, data) == [path |-> path, kind |-> data.kind, rows |-> data.rows]

\* the glob finds every path once, in an order the file system chooses
FileLists(maxfiles) ==
    UNION { { [k \in 1..n |-> File(ps[k], ds[k])] :
                ps \in {q \in [1..n -> PathPool] :
                           \A a, b \in 1..n : a # b => q[a] # q[b]},
                ds \in [1..n -> DataPool] } : n \in 0..maxfiles }

InitSeq ==
    /\ files \in FileLists(MaxFiles)
    /\ pc = "load"
    /\ raw = <<>>
    /\ noise_set = {}
    /\ idx = 1
    /\ current_ts = None
    /\ heap = <<>>
    /\ cleaned = <<>>
    /\ grouped = <<>>
    /\ deduped = <<>>
    /\ final = <<>>
    /\ output = <<>>
    /\ parts = <<>>
    /\ stitched = <<>>
    /\ candidates = <<NoFile, NoFile>>
    /\ input_file = 0
    /\ error = <<>>

NextSeq ==
    \/ LoadParts
    \/ Stitch
    \/ WriteRows

SpecSeq == InitSeq /\ [][NextSeq]_vars

\* the rows of the end-to-end scenario: a timestamp row and two rows of one
\* batch, then the same row again from the next batch
ScenarioC1 ==
    [pos \in 1..4 |->
        Entry(IF pos = 1 THEN Row("Partner", <<Ts1>>, <<>>)
              ELSE Row("Partner", <<<<"hello">>>>, <<>>), pos, 3)]

Init ==
    \/ \E n \in 0..MaxLen :
         \E f \in [1..n -> RowPool], k \in 0..n :
           InitMain([pos \in 1..n |-> Entry(f[pos], pos, k)])
    \/ InitMain(ScenarioC1)

Next ==
    \/ CollectNoise
    \/ CleanStep
    \/ Group
    \/ DedupeConsecutive
    \/ DedupeArtifacts
    \/ Strip

Spec == Init /\ [][Next]_vars

-----------------------------------------------------------------------------
(* A corpus in which URLs recur often enough to reach the noise threshold *)

MaxNoiseLen == 3     \* longest raw stream explored with recurring URLs

Rep(u, n) == [k \in 1..n |-> u]
Half == NOISE_ATTACHMENT_THRESHOLD \div 2

NoisePool ==
    { Row("You", <<<<"ok">>>>, Rep(Avatar, Half)),
      Row("You", <<<<"ok">>>>, Rep(Avatar, NOISE_ATTACHMENT_THRESHOLD - Half)),
      Row("Partner", <<<<"hello">>>>, Rep(AvatarQ, Half)),
      Row("Partner", <<<<"hello">>>>,
          Rep(AvatarQ, NOISE_ATTACHMENT_THRESHOLD - Half)),
      Row("You", <<<<"Seen">>>>, <<Avatar, Img1>>) }

InitNoise ==
    \E n \in 0..MaxNoiseLen :
      \E f \in [1..n -> NoisePool], k \in 0..n :
        InitMain([pos \in 1..n |-> Entry(f[pos], pos, k)])

SpecNoise == InitNoise /\ [][Next]_vars

-----------------------------------------------------------------------------
(* The capture-artifact stage on its own: it is handed any sequence of      *)
(* cleaned messages                                                         *)

RECURSIVE CleanFrom(_, _, _, _, _)
CleanFrom(rows, i, ts, h, cl) ==
    IF i > Len(rows) THEN [heap |-> h, cleaned |-> cl]
    ELSE LET r == clean_entry(rows[i], ts, {})
         IN IF r.has_msg
            THEN CleanFrom(rows, i + 1, r.ts, h @@ (i :> r.msg), Append(cl, i))
            ELSE CleanFrom(rows, i + 1, r.ts, h, cl)

\* the rows that yield a message
ArtifactPool ==
    { Row("Partner", <<<<"hello">>>>, <<>>),
      Row("Partner", <<<<"hello">>>>, <<Img1>>),
      Row("Partner", <<<<"Seen">>>>, <<Img2, BlobUrl>>),
      Row("You", <<<<"ok">>>>, <<>>) }

\* a row of the part file of the batch, behind the rows before of that batch
EntryOf(row, batch, before) ==
    [sender |-> row.sender, content |-> row.content,
     media_urls |-> row.media_urls,
     source_file |-> Path(batch, StemPart1),
     batch |-> batch,
     part |-> part_number(Path(batch, StemPart1)),
     index |-> before]

\* the rows f[1..n] with row pos in batch b[pos]: the batches follow each
\* other in any order
MixedStream(f, b, n) ==
    [pos \in 1..n |->
        EntryOf(f[pos], b[pos],
                Cardinality({j \in 1..(pos - 1) : b[j] = b[pos]}))]

InitArtifacts ==
    \E n \in 0..MaxLen :
      \E f \in [1..n -> ArtifactPool], b \in [1..n -> {BatchA, BatchB}] :
        LET stream == MixedStream(f, b, n)
            c == CleanFrom(stream, 1, None, <<>>, <<>>)
        IN /\ raw = stream
           /\ pc = "artifacts"
           /\ noise_set = {}
           /\ idx = Len(stream) + 1
           /\ current_ts = None
           /\ heap = c.heap
           /\ cleaned = c.cleaned
           /\ grouped = c.cleaned
           /\ deduped = c.cleaned
           /\ final = <<>>
           /\ output = <<>>
           /\ files = <<>>
           /\ parts = <<>>
           /\ stitched = <<>>
           /\ candidates = <<OnDisk(stream), NoFile>>
           /\ input_file = 1
           /\ error = <<>>

NextArtifacts ==
    \/ DedupeArtifacts
    \/ Strip

SpecArtifacts == InitArtifacts /\ [][NextArtifacts]_vars

-----------------------------------------------------------------------------
(* The consecutive-duplicate stage on its own: it is handed any sequence of *)
(* cleaned messages, equal neighbours included                              *)

ConsecutivePool ==
    { Row("Partner", <<<<"hello">>>>, <<Img1, Img2>>),
      Row("Partner", <<<<"hello">>>>, <<Img2, Img1>>),
      Row("Partner", <<<<"hello">>>>, <<>>),
      Row("You", <<<<"ok">>>>, <<>>) }

InitConsecutive ==
    \E n \in 0..MaxLen :
      \E f \in [1..n -> ConsecutivePool], k \in 0..n :
        LET stream == [pos \in 1..n |-> Entry(f[pos], pos, k)]
            c == CleanFrom(stream, 1, None, <<>>, <<>>)
        IN /\ raw = stream
           /\ pc = "dedupe"
           /\ noise_set = {}
           /\ idx = Len(stream) + 1
           /\ current_ts = None
           /\ heap = c.heap
           /\ cleaned = c.cleaned
           /\ grouped = c.cleaned
           /\ deduped = <<>>
           /\ final = <<>>
           /\ output = <<>>
           /\ files = <<>>
           /\ parts = <<>>
           /\ stitched = <<>>
           /\ candidates = <<OnDisk(stream), NoFile>>
           /\ input_file = 1
           /\ error = <<>>

NextConsecutive ==
    \/ DedupeConsecutive
    \/ DedupeArtifacts
    \/ Strip

SpecConsecutive == InitConsecutive /\ [][NextConsecutive]_vars

-----------------------------------------------------------------------------
(* main() from its first line: either candidate may be there or not *)

MaxInputLen == 2     \* longest content of an input candidate explored

InputPool ==
    { Row("Partner", <<<<"hello">>>>, <<>>), Row("You", <<<<"ok">>>>, <<>>) }

InitInput ==
    /\ candidates \in
          [1..Len(INPUT_CANDIDATES) ->
              {NoFile} \cup {OnDisk(rows) : rows \in Streams(InputPool, MaxInputLen)}]
    /\ pc = "start"
    /\ raw = <<>>
    /\ noise_set = {}
    /\ idx = 1
    /\ current_ts = None
    /\ heap = <<>>
    /\ cleaned = <<>>
    /\ grouped = <<>>
    /\ deduped = <<>>
    /\ final = <<>>
    /\ output = <<>>
    /\ files = <<>>
    /\ parts = <<>>
    /\ stitched = <<>>
    /\ input_file = 0
    /\ error = <<>>

NextInput ==
    \/ OpenInput
    \/ CollectNoise
    \/ CleanStep
    \/ Group
    \/ DedupeConsecutive
    \/ DedupeArtifacts
    \/ Strip

SpecInput == InitInput /\ [][NextInput]_vars

-----------------------------------------------------------------------------
(* The two programs one after the other: stitch() of the sequencer on the   *)
(* part files, then main() of the cleaner on the stream it wrote            *)

PipePaths ==
    { Path(BatchA, StemPart2), Path(BatchA, StemPart2Copy),
      Path(BatchB, StemPart1) }

PipeData ==
    { [kind |-> "list", rows |-> <<PartRow("You", <<<<"ok">>>>, <<>>)>>],
      [kind |-> "list", rows |-> <<PartRow("Partner", <<<<"hello">>>>, <<>>)>>] }

InitPipe ==
    /\ files \in
          UNION { { [k \in 1..n |-> File(ps[k], ds[k])] :
                      ps \in {q \in [1..n -> PipePaths] :
                                 \A a, b \in 1..n : a # b => q[a] # q[b]},
                      ds \in [1..n -> PipeData] } : n \in 0..MaxFiles }
    /\ pc = "load"
    /\ raw = <<>>
    /\ noise_set = {}
    /\ idx = 1
    /\ current_ts = None
    /\ heap = <<>>
    /\ cleaned = <<>>
    /\ grouped = <<>>
    /\ deduped = <<>>
    /\ final = <<>>
    /\ output = <<>>
    /\ parts = <<>>
    /\ stitched = <<>>
    /\ candidates = <<NoFile, NoFile>>
    /\ input_file = 0
    /\ error = <<>>

NextPipe ==
    \/ LoadParts
    \/ Stitch
    \/ WriteRows
    \/ CollectNoise
    \/ CleanStep
    \/ Group
    \/ DedupeConsecutive
    \/ DedupeArtifacts
    \/ Strip

SpecPipe == InitPipe /\ [][NextPipe]_vars

\* stitch() as a function of the files in the order of the glob
RunStitch(fs) == StitchParts(load_parts(fs), <<>>)

\* the loop "for entry in raw_rows" of main() from row i on
RECURSIVE CleanRows(_, _, _, _, _, _)
CleanRows(rows, noise, i, ts, h, cl) ==
    IF i > Len(rows) THEN [heap |-> h, cleaned |-> cl]
    ELSE LET r == clean_entry(rows[i], ts, noise)
         IN IF r.has_msg
            THEN CleanRows(rows, noise, i + 1, r.ts, h @@ (i :> r.msg),
                           Append(cl, i))
            ELSE CleanRows(rows, noise, i + 1, r.ts, h, cl)

\* main() as a function of the rows it loads: the messages it dumps
RunMain(rows) ==
    LET c == CleanRows(rows, NoiseSetOf(rows), 1, None, <<>>, <<>>)
        g == group_messages(c.heap, c.cleaned)
        d == dedupe_consecutive(g.heap, g.out)
        a == dedupe_capture_artifacts(g.heap, d)
        h == strip_internal_fields(a.heap, a.out)
    IN [k \in 1..Len(a.out) |-> h[a.out[k]]]

-----------------------------------------------------------------------------
(* A corpus with timestamp labels inside the rows and with every kind of    *)
(* media URL                                                                *)

Img1Pad == [Img1 EXCEPT !.pad = TRUE]
FtpUrl == Url("ftp", FALSE, "ftp://host/file", NoQuery)
NotStr == Url("nonstr", FALSE, "", NoQuery)

CleanPool ==
    { Row("Partner", <<<<"hello">>, Ts1>>, <<Img1, BlobUrl, Img1Pad>>),
      Row("Partner", <<Ts2, <<"hi">>>>, <<Img2, Img1>>),
      Row("Partner", <<<<"Seen">>>>, <<EmojiUrl, FtpUrl, NotStr, Img2>>),
      Row("You", <<<<"ok">>>>, <<>>),
      Row("You", <<<<"You", "sent">>, Ts2>>, <<EmojiUrl>>) }

InitClean ==
    \E n \in 0..MaxLen :
      \E f \in [1..n -> CleanPool], k \in 0..n :
        InitMain([pos \in 1..n |-> Entry(f[pos], pos, k)])

SpecClean == InitClean /\ [][Next]_vars

-----------------------------------------------------------------------------
(* Vocabulary of the properties *)

Done == pc = "done"

Out(k) == heap[output[k]]

\* what clean_entry makes of raw row i, whatever the running timestamp
Cleaned(i) == clean_entry(raw[i], None, noise_set)

\* raw row i is a message of sender s whose normalized text is t
Says(i, s, t) ==
    /\ Cleaned(i).has_msg
    /\ Cleaned(i).msg.sender = s
    /\ norm_text(Cleaned(i).msg.content) = t

\* the message carries the text t
Carries(m, t) == Contains(norm_text(m.content), t)

Texts == { <<"hello">>, <<"ok">> }
Senders == { PARTNER_NAME, "You" }
Batches == { raw[i].batch : i \in 1..Len(raw) }

Sayers(s, t, b) == { i \in 1..Len(raw) : raw[i].batch = b /\ Says(i, s, t) }

Increasing(ids) == \A a, b \in 1..Len(ids) : a < b => ids[a] < ids[b]

-----------------------------------------------------------------------------
(* C1 *)

\* C1: the pipeline run on batch1 = [Partner: "18 Dec 2025, 16:19",
\* Partner: "hello", Partner: "hello"] followed by batch2 = [Partner: "hello"]
\* ends with exactly two messages of the partner's display name, each with
\* the content "hello", the first from batch1 and the second from batch2.
C1_EndToEnd ==
    (Done /\ raw = ScenarioC1) =>
        /\ Len(output) = 2
        /\ \A k \in 1..Len(output) :
              /\ Out(k).sender = PARTNER_NAME
              /\ Out(k).content = <<<<"hello">>>>
        /\ raw[output[1]].batch = BatchA
        /\ raw[output[2]].batch = BatchB

-----------------------------------------------------------------------------
(* C2 *)

\* C2: when sender s sends text t in exactly one row of one batch and in
\* exactly one row of another batch, the final output has two separate
\* messages of s that carry t.
C2_CrossBatchPreserved ==
    Done =>
        \A s \in Senders, t \in Texts :
            \A a, b \in Batches :
                ( /\ a # b
                  /\ Cardinality(Sayers(s, t, a)) = 1
                  /\ Cardinality(Sayers(s, t, b)) = 1 )
                => \E k1, k2 \in 1..Len(output) :
                       /\ k1 # k2
                       /\ Out(k1).sender = s /\ Carries(Out(k1), t)
                       /\ Out(k2).sender = s /\ Carries(Out(k2), t)

-----------------------------------------------------------------------------
(* C3 *)

\* attachments that clean_entry keeps for raw row i
KeptAttachments(i) == Range(Atts(Cleaned(i).msg))

\* C3: when sender s sends text t in two rows of one batch (and in no row of
\* another batch), the final output has exactly one message that carries t
\* for s, and its attachments include those of both rows.
C3_WithinBatchRemoved ==
    Done =>
        \A s \in Senders, t \in Texts :
            \A b \in Batches :
                ( /\ Cardinality(Sayers(s, t, b)) = 2
                  /\ \A c \in Batches \ {b} : Sayers(s, t, c) = {} )
                => LET ks == { k \in 1..Len(output) :
                                  /\ Out(k).sender = s
                                  /\ Carries(Out(k), t) }
                   IN /\ Cardinality(ks) = 1
                      /\ \A k \in ks : \A i \in Sayers(s, t, b) :
                            KeptAttachments(i) \subseteq Range(Atts(Out(k)))

-----------------------------------------------------------------------------
(* C4 *)

\* C4: no two adjacent messages of the final output have the same sender,
\* the same content and the same attachment set.
C4_NoAdjacentDuplicates ==
    Done =>
        \A k \in 1..(Len(output) - 1) : ~SameMessage(Out(k + 1), Out(k))

-----------------------------------------------------------------------------
(* C5 *)

\* C5: a URL that occurs 25 or more times in the media_urls of the raw
\* corpus is in the attachments of no message of the final output.
C5_NoiseSuppressed ==
    Done =>
        \A u \in Range(AllUrls(raw)) :
            Count(AllUrls(raw), u) >= 25
            => \A k \in 1..Len(output) : u \notin Range(Atts(Out(k)))

-----------------------------------------------------------------------------
(* C6 *)

NonEmpty(m) == Concat(m.content) # <<>> \/ Atts(m) # <<>>

\* every line of raw row i is discarded and every URL of it is filtered
AllDropped(i) ==
    /\ CleanLines(SplitLines(raw[i].content), None, <<>>).lines = <<>>
    /\ filter_attachments(raw[i].media_urls, noise_set) = <<>>

Lists == {cleaned, grouped, deduped, final, output}

\* C6: every message, at every stage, has non-empty content or a non-empty
\* attachments list, and a row whose lines are all discarded and whose
\* attachments are all filtered yields no message.
C6_NonEmpty ==
    /\ \A id \in DOMAIN heap : NonEmpty(heap[id])
    /\ \A l \in Lists : Range(l) \subseteq DOMAIN heap
    /\ pc # "count" =>
          \A i \in 1..(idx - 1) : AllDropped(i) => i \notin DOMAIN heap

C6_Witness ==
    /\ Done
    /\ Len(output) >= 2
    /\ \E k \in 1..Len(output) : Out(k).content = <<>>
    /\ \E i \in 1..Len(raw) :
          /\ raw[i].content # <<>>
          /\ raw[i].media_urls # <<>>
          /\ AllDropped(i)
          /\ i \notin DOMAIN heap

-----------------------------------------------------------------------------
(* C7 *)

\* C7: running dedupe_capture_artifacts on its own output drops nothing,
\* reorders nothing and changes no message.
C7_Idempotent ==
    pc = "strip" =>
        LET again == dedupe_capture_artifacts(heap, final)
        IN /\ again.out = final
           /\ again.heap = heap

C7_Witness ==
    /\ pc = "strip"
    /\ Len(final) >= 2
    /\ Len(final) + 2 <= Len(deduped)
    /\ \E k \in 1..Len(final) : heap[final[k]].has_attachments

-----------------------------------------------------------------------------
(* C8 *)

HasDigits(name) == \E k \in 1..Len(name) : name[k].digit

Positions(path) == { k \in 1..Len(stitched) : stitched[k].source_file = path }

LoadedFiles == { files[k] : k \in { j \in 1..Len(files) : files[j].kind = "list" } }

\* C8: in the stitched stream the files follow each other in non-decreasing
\* (batch number, part number) order, the rows of a loaded file are contiguous,
\* in their order, with index = position, none is dropped or duplicated, and
\* a name without digits counts as number 0.
C8_SequencerOrder ==
    pc \in {"write", "count"} =>
        /\ \A a, b \in 1..Len(stitched) :
              a < b => KeyLeq(KeyOf(stitched[a].source_file),
                              KeyOf(stitched[b].source_file))
        /\ \A f \in LoadedFiles :
              /\ Cardinality(Positions(f.path)) = Len(f.rows)
              /\ \E start \in 0..Len(stitched) :
                    \A i \in 1..Len(f.rows) :
                        /\ start + i \in Positions(f.path)
                        /\ stitched[start + i].content = f.rows[i].raw_text
                        /\ stitched[start + i].media_urls = f.rows[i].media_urls
                        /\ stitched[start + i].index = i - 1
                        /\ stitched[start + i].batch = f.path.dir
        /\ \A k \in 1..Len(stitched) :
              /\ \E f \in LoadedFiles : stitched[k].source_file = f.path
              /\ ~HasDigits(Concat(stitched[k].source_file.stem))
                    => stitched[k].part = 0
        /\ \A k \in 1..Len(files) :
              ~HasDigits(files[k].path.dir) => batch_number(files[k].path) = 0

C8_Witness ==
    /\ pc = "write"
    /\ Len(files) = 3
    /\ \A k \in 1..3 : files[k].kind = "list"
    /\ \E a, b \in 1..3 :
          a < b /\ ~KeyLeq(KeyOf(files[a].path), KeyOf(files[b].path))
    /\ \E k \in 1..3 : ~HasDigits(files[k].path.dir)
    /\ \E a, b \in 1..3 : a # b /\ KeyOf(files[a].path) = KeyOf(files[b].path)
    /\ Len(stitched) >= 4

-----------------------------------------------------------------------------
(* C9 *)

\* C9: every stage keeps its items in the order of its input: each list is a
\* subsequence of the one before it, and the final output lists the raw rows
\* that started its messages in increasing position.
C9_OrderPreserved ==
    /\ \A l \in Lists : Increasing(l)
    /\ Range(cleaned) \subseteq 1..Len(raw)
    /\ Range(grouped) \subseteq Range(cleaned)
    /\ Range(deduped) \subseteq Range(grouped)
    /\ Range(final) \subseteq Range(deduped)
    /\ Range(output) \subseteq Range(final)
    /\ \A k \in 1..Len(final) :
          pc # "done" =>
              /\ heap[final[k]]._source_batch = raw[final[k]].batch
              /\ heap[final[k]]._source_index = raw[final[k]].index

C9_Witness ==
    /\ Done
    /\ Len(grouped) < Len(cleaned)
    /\ Len(final) < Len(deduped)
    /\ Len(output) >= 2

-----------------------------------------------------------------------------
(* C10 *)

Visible(m) ==
    <<m.timestamp, m.sender, m.content, m.type, m.has_attachments,
      m.attachments>>

Stripped(m) ==
    /\ m._source_batch = NoName
    /\ m._source_part = MissingNum
    /\ m._source_index = MissingNum

\* C10: strip_internal_fields removes _source_batch, _source_part and
\* _source_index from every message of the output and changes nothing else:
\* the same messages in the same order with the same timestamp, sender,
\* content, type and attachments.
C10_ProvenanceStripped ==
    [][pc = "strip" =>
          /\ output' = final
          /\ DOMAIN heap' = DOMAIN heap
          /\ \A id \in DOMAIN heap : Visible(heap'[id]) = Visible(heap[id])
          /\ \A k \in 1..Len(output') : Stripped(heap'[output'[k]])
          /\ \A k \in 1..Len(final) : ~Stripped(heap[final[k]])]_vars

C10_Witness ==
    /\ Done
    /\ Len(output) >= 2
    /\ \E k \in 1..Len(output) : Out(k).has_attachments
    /\ \A k \in 1..Len(output) : Stripped(Out(k))

-----------------------------------------------------------------------------
(* C11 *)

NoRepeat(a) == \A i, j \in 1..Len(a) : i # j => a[i] # a[j]

IsPrefix(a, b) == Len(a) <= Len(b) /\ SubSeq(b, 1, Len(a)) = a

\* positions of urls at which the URL u stands, up to surrounding blanks
Seen(u, urls) == { k \in 1..Len(urls) : [urls[k] EXCEPT !.pad = FALSE] = u }

Least(S) == CHOOSE k \in S : \A j \in S : k <= j

\* the list a holds URLs of urls, in the order in which urls shows them first
FirstSeenOrder(a, urls) ==
    /\ \A k \in 1..Len(a) : Seen(a[k], urls) # {}
    /\ \A i, j \in 1..Len(a) :
          i < j => Least(Seen(a[i], urls)) < Least(Seen(a[j], urls))

Wellformed(m) ==
    /\ m.has_attachments => m.attachments # <<>>
    /\ NoRepeat(Atts(m))
    /\ \A k \in 1..Len(Atts(m)) :
          /\ Atts(m)[k].scheme \in {"http", "https"}
          /\ ~Atts(m)[k].emoji

\* C11: at every step of the run, every message has an attachments list
\* without a repeated URL, without a blob:, emoji-asset or non-http URL, and
\* present only when non-empty; a new message lists its URLs in the order in
\* which its row shows them first, and a later stage only appends to the
\* list of a message, URLs that some message carried before.
C11_AttachmentsInvariant ==
    [][\A id \in DOMAIN heap' :
          /\ Wellformed(heap'[id])
          /\ id \in DOMAIN heap =>
                /\ IsPrefix(Atts(heap[id]), Atts(heap'[id]))
                /\ Range(Atts(heap'[id])) \subseteq
                      UNION { Range(Atts(heap[j])) : j \in DOMAIN heap }
          /\ id \notin DOMAIN heap =>
                FirstSeenOrder(Atts(heap'[id]), raw[id].media_urls)]_vars

C11_Witness ==
    /\ Done
    /\ \E k \in 1..Len(output) :
          /\ Len(Atts(Out(k))) = 2
          /\ Len(Atts(Cleaned(output[k]).msg)) = 1
          /\ \E u \in Range(Atts(Out(k))) :
                Cardinality(Seen(u, raw[output[k]].media_urls)) = 2
          /\ \E j \in 1..Len(raw[output[k]].media_urls) :
                raw[output[k]].media_urls[j].scheme = "blob"

-----------------------------------------------------------------------------
(* C12 *)

\* the directory without the files that do not parse or are not lists
GoodFiles == SelectSeq(files, Loadable)

BadPaths == { files[k].path : k \in { j \in 1..Len(files) : ~Loadable(files[j]) } }

\* C12: a part file that does not parse, or that is not a list, is skipped:
\* the run goes on without an error, no row of the stitched stream comes from
\* such a file, and the stream is the one that the other files alone give,
\* with every row of every one of them.
C12_BadFilesSkipped ==
    /\ pc \in {"load", "stitch", "write", "count"}
    /\ error = <<>>
    /\ pc # "load" =>
          /\ Len(parts) = Len(GoodFiles)
          /\ parts = load_parts(GoodFiles)
    /\ pc \in {"write", "count"} =>
          /\ stitched = StitchParts(load_parts(GoodFiles), <<>>)
          /\ \A k \in 1..Len(stitched) : stitched[k].source_file \notin BadPaths
          /\ \A g \in 1..Len(GoodFiles) : \A i \in 1..Len(GoodFiles[g].rows) :
                \E k \in 1..Len(stitched) :
                    /\ stitched[k].source_file = GoodFiles[g].path
                    /\ stitched[k].index = i - 1
                    /\ stitched[k].content = GoodFiles[g].rows[i].raw_text

C12_Witness ==
    /\ pc = "write"
    /\ \E k \in 1..Len(files) : files[k].kind = "invalid"
    /\ \E k \in 1..Len(files) : files[k].kind = "nonlist"
    /\ \E a, b \in 1..Len(files) :
          /\ ~Loadable(files[a])
          /\ Loadable(files[b])
          /\ KeyOf(files[a].path) # KeyOf(files[b].path)
          /\ KeyLeq(KeyOf(files[a].path), KeyOf(files[b].path))
    /\ Len(stitched) >= 2

-----------------------------------------------------------------------------
(* C13 *)

Existing == { k \in 1..Len(INPUT_CANDIDATES) : candidates[k].exists }

\* no stage has run and nothing was written
Untouched ==
    /\ raw = <<>>
    /\ noise_set = {}
    /\ idx = 1
    /\ heap = <<>>
    /\ Lists = {<<>>}

\* what main() has done about its input once it has looked for it
InputRule ==
    /\ (pc # "start" /\ Existing = {}) =>
          /\ pc = "error"
          /\ error = INPUT_CANDIDATES
          /\ input_file = 0
          /\ Untouched
    /\ (pc # "start" /\ Existing # {}) =>
          /\ pc # "error"
          /\ error = <<>>
          /\ input_file = Least(Existing)
          /\ raw = candidates[Least(Existing)].rows

\* C13: when no input candidate exists the run ends in an error that names
\* the candidate paths, no stage runs and nothing is written, and no step
\* follows the error; when one exists, the run reads the first existing
\* candidate of the list and raises no error.
C13_MissingInputFatal == []InputRule /\ [][pc # "error"]_vars

C13_Witness ==
    /\ pc = "error"
    /\ Existing = {}
    /\ error = INPUT_CANDIDATES

-----------------------------------------------------------------------------
(* C14 *)

\* the same files in every order in which the glob may list them
Enumerations(fs) ==
    { [k \in 1..Len(fs) |-> fs[p[k]]] : p \in Permutations(1..Len(fs)) }

\* C14: a run of the sequencer and the cleaner on the same part files listed
\* in any other order ends with the same output as this run.
C14_Deterministic ==
    Done =>
        \A fs \in Enumerations(files) :
            RunMain(RunStitch(fs)) = [k \in 1..Len(output) |-> Out(k)]
-----------------------------------------------------------------------------
(* C15 *)

\* the lines of the rows 1..i as clean_entry looks at them
RECURSIVE LinesUpTo(_)
LinesUpTo(i) ==
    IF i = 0 THEN <<>>
    ELSE LET ls == SplitLines(raw[i].content)
         IN LinesUpTo(i - 1) \o [k \in 1..Len(ls) |-> strip_leading_label(ls[k])]

\* the timestamp labels among them
LabelsUpTo(i) == SelectSeq(LinesUpTo(i), is_timestamp)

LastLabel(i) ==
    IF LabelsUpTo(i) = <<>> THEN None ELSE LabelsUpTo(i)[Len(LabelsUpTo(i))]

HasLabel(i) == Len(LabelsUpTo(i)) > Len(LabelsUpTo(i - 1))

\* C15: while the rows are cleaned, the running timestamp is the last
\* timestamp label of the rows cleaned so far (None before the first one),
\* whether those rows yielded messages or not, and every message carries the
\* last label of the stream up to the end of its own row, or "Unknown Time"
\* when there is none.
C15_RunningTimestamp ==
    pc \in {"count", "clean"} =>
        /\ current_ts = LastLabel(idx - 1)
        /\ \A i \in Range(cleaned) :
              /\ heap[i].timestamp =
                    IF LastLabel(i) = None THEN UnknownTime ELSE LastLabel(i)
              /\ heap[i].timestamp = UnknownTime <=> LabelsUpTo(i) = <<>>

C15_Witness ==
    /\ pc = "clean"
    /\ idx > Len(raw)
    /\ \E i \in Range(cleaned) : heap[i].timestamp = UnknownTime
    /\ \E i \in 1..Len(raw) :
          /\ i \notin Range(cleaned)
          /\ HasLabel(i)
          /\ i + 1 \in Range(cleaned)
          /\ ~HasLabel(i + 1)
          /\ heap[i + 1].timestamp = LastLabel(i)
    /\ \E i \in Range(cleaned) :
          /\ HasLabel(i)
          /\ LastLabel(i) # LastLabel(i - 1)
          /\ LastLabel(i - 1) # None
-----------------------------------------------------------------------------
(* C16 *)

\* the triple (_source_batch, sender, normalized content) of a message
Triple(m) == <<m._source_batch, m.sender, norm_text(m.content)>>

\* the positions of ids whose message has the triple of position k
Alike(h, ids, k) ==
    { j \in 1..Len(ids) : Triple(h[ids[j]]) = Triple(h[ids[k]]) }

\* ids restricted to the members of S
RECURSIVE Restrict(_, _)
Restrict(ids, S) ==
    IF ids = <<>> THEN <<>>
    ELSE (IF Head(ids) \in S THEN <<Head(ids)>> ELSE <<>>)
         \o Restrict(Tail(ids), S)

\* the URLs of urls, each once, in the order of their first occurrence
RECURSIVE Uniq(_)
Uniq(urls) ==
    IF urls = <<>> THEN <<>>
    ELSE LET front == Uniq(SubSeq(urls, 1, Len(urls) - 1))
             u == urls[Len(urls)]
         IN IF u \in Range(front) THEN front ELSE Append(front, u)

\* the attachments of the messages at the positions ks of ids, in order
RECURSIVE AttsOf(_, _, _, _)
AttsOf(h, ids, ks, k) ==
    IF k > Len(ids) THEN <<>>
    ELSE (IF k \in ks THEN Atts(h[ids[k]]) ELSE <<>>)
         \o AttsOf(h, ids, ks, k + 1)

\* C16: dedupe_capture_artifacts keeps, in input order, exactly the first
\* message of each (_source_batch, sender, normalized content) triple; a kept
\* message ends with its own attachments followed by the new ones of the
\* later messages of its triple, in first-seen order, and is otherwise
\* unchanged; the dropped messages are unchanged.
C16_ArtifactsExact ==
    [][pc = "artifacts" =>
          LET firsts == { k \in 1..Len(deduped) :
                            \A j \in Alike(heap, deduped, k) : k <= j }
          IN /\ final' = Restrict(deduped, { deduped[k] : k \in firsts })
             /\ DOMAIN heap' = DOMAIN heap
             /\ \A k \in firsts :
                   LET all == Uniq(AttsOf(heap, deduped,
                                          Alike(heap, deduped, k), 1))
                   IN heap'[deduped[k]] =
                          [heap[deduped[k]] EXCEPT
                              !.attachments = all,
                              !.has_attachments = (all # <<>>)]
             /\ \A k \in (1..Len(deduped)) \ firsts :
                   heap'[deduped[k]] = heap[deduped[k]]]_vars

\* a repeat with a new attachment, two messages after the first of its
\* batch, and the same triple kept in the other batch between the two
C16_Witness ==
    /\ pc = "strip"
    /\ \E a, b, c \in 1..Len(deduped) :
          /\ a + 1 < b
          /\ Triple(heap[deduped[a]]) = Triple(heap[deduped[b]])
          /\ deduped[a] \in Range(final)
          /\ deduped[b] \notin Range(final)
          /\ Atts(Cleaned(deduped[a]).msg) = <<>>
          /\ Atts(heap[deduped[b]]) # <<>>
          /\ Atts(heap[deduped[a]]) = Atts(heap[deduped[b]])
          /\ a < c /\ c < b
          /\ deduped[c] \in Range(final)
          /\ heap[deduped[c]]._source_batch # heap[deduped[a]]._source_batch
          /\ heap[deduped[c]].sender = heap[deduped[a]].sender
          /\ norm_text(heap[deduped[c]].content)
                = norm_text(heap[deduped[a]].content)
-----------------------------------------------------------------------------
(* C17 *)

\* position k of cleaned starts a run of messages of one sender
RunStart(k) ==
    k = 1 \/ heap[cleaned[k]].sender # heap[cleaned[k - 1]].sender

\* the positions of the maximal run that starts at k
RunOf(k) ==
    { j \in k..Len(cleaned) :
         \A i \in k..j : heap[cleaned[i]].sender = heap[cleaned[k]].sender }

\* the contents of the messages at the positions ks of cleaned, in order
RECURSIVE ContentsOf(_, _)
ContentsOf(ks, k) ==
    IF k > Len(cleaned) THEN <<>>
    ELSE (IF k \in ks THEN heap[cleaned[k]].content ELSE <<>>)
         \o ContentsOf(ks, k + 1)

\* C17: group_messages outputs one block per maximal run of consecutive
\* messages of one sender, the first message of the run; its content is the
\* lines of the run's messages in order, an empty content adding no line and
\* no separator, and its attachments are those of the run's messages, each
\* once, in first-seen order.
C17_GrouperMerge ==
    [][(pc = "clean" /\ pc' = "dedupe") =>
          /\ grouped' = Restrict(cleaned, { cleaned[k] : k \in
                                              { j \in 1..Len(cleaned) : RunStart(j) } })
          /\ \A k \in 1..Len(cleaned) :
                RunStart(k) =>
                    LET block == heap'[cleaned[k]]
                        all == Uniq(AttsOf(heap, cleaned, RunOf(k), 1))
                    IN /\ block.sender = heap[cleaned[k]].sender
                       /\ block.content = ContentsOf(RunOf(k), 1)
                       /\ \A n \in 1..Len(block.content) :
                             block.content[n] # <<>>
                       /\ block.attachments = all
                       /\ block.has_attachments = (all # <<>>)]_vars

\* a block of three messages: one without content before and one between
\* two with content, and attachments that overlap
C17_Witness ==
    /\ pc = "dedupe"
    /\ \E k \in 1..Len(grouped) :
          LET id == grouped[k]
          IN /\ id + 3 \in Range(cleaned)
             /\ \A j \in 1..3 : id + j \notin Range(grouped)
             /\ Cleaned(id).msg.content = <<>>
             /\ Cleaned(id + 1).msg.content # <<>>
             /\ Cleaned(id + 2).msg.content = <<>>
             /\ Cleaned(id + 3).msg.content # <<>>
             /\ Len(heap[id].content) = 2
             /\ Len(Atts(heap[id])) = 2

-----------------------------------------------------------------------------
(* C18 *)

\* the positions of the run from k whose message has a concrete timestamp
Stamped(k) == { j \in RunOf(k) : heap[cleaned[j]].timestamp # UnknownTime }

\* C18: the timestamp of a block is that of the first message of its run
\* which is not "Unknown Time", and "Unknown Time" when the run has none; a
\* later concrete timestamp of the run does not replace it.
C18_GrouperTimestamp ==
    [][(pc = "clean" /\ pc' = "dedupe") =>
          \A k \in 1..Len(cleaned) :
              RunStart(k) =>
                  heap'[cleaned[k]].timestamp =
                      IF Stamped(k) = {} THEN UnknownTime
                      ELSE heap[cleaned[Least(Stamped(k))]].timestamp]_vars

\* a block that began without a timestamp, took the first concrete one and
\* kept it when a message with another one was merged
C18_Witness ==
    /\ pc = "dedupe"
    /\ \E k \in 1..Len(grouped) :
          LET id == grouped[k]
          IN /\ id + 2 \in Range(cleaned)
             /\ \A j \in 1..2 : id + j \notin Range(grouped)
             /\ LastLabel(id) = None
             /\ LastLabel(id + 1) = Ts1
             /\ LastLabel(id + 2) = Ts2
             /\ heap[id].timestamp = Ts1
    /\ \E k \in 1..Len(grouped) : heap[grouped[k]].timestamp = UnknownTime
-----------------------------------------------------------------------------
(* C19 *)

\* same sender, same content, same set of attachments
Equal3(m, p) ==
    /\ m.sender = p.sender
    /\ m.content = p.content
    /\ Range(Atts(m)) = Range(Atts(p))

\* C19: dedupe_consecutive keeps, in input order, exactly the first message
\* of each run of neighbours that are equal in sender, content and attachment
\* set, whatever the order of the attachments; it changes no message, and no
\* two neighbours of its output are equal in these three fields.
C19_ConsecutiveCollapse ==
    [][pc = "dedupe" =>
          /\ deduped' =
                Restrict(grouped,
                         { grouped[k] : k \in
                             { j \in 1..Len(grouped) :
                                  j = 1 \/ ~Equal3(heap[grouped[j]],
                                                   heap[grouped[j - 1]]) } })
          /\ heap' = heap
          /\ \A k \in 1..(Len(deduped') - 1) :
                ~Equal3(heap[deduped'[k]], heap[deduped'[k + 1]])]_vars

\* three equal neighbours whose attachments come in two orders collapse
\* into the first, and the message after them is kept
C19_Witness ==
    /\ pc = "artifacts"
    /\ Len(grouped) = 4
    /\ Len(deduped) = 2
    /\ deduped[1] = grouped[1]
    /\ deduped[2] = grouped[4]
    /\ Len(Atts(heap[grouped[1]])) = 2
    /\ Atts(heap[grouped[2]]) # Atts(heap[grouped[1]])
    /\ Atts(heap[grouped[3]]) = Atts(heap[grouped[1]])
-----------------------------------------------------------------------------
(* C20 *)

\* the URLs of the corpus that the tally does not skip
CountedUrls == { u \in Range(AllUrls(raw)) : Counted(u) }

\* C20: the tally has one entry per counted URL as it is written, query
\* string included, whose count is the number of occurrences of exactly that
\* URL, and the noise set holds the URLs written 25 times or more.
C20_TallyVerbatim ==
    pc # "count" =>
        LET counts == collect_attachment_counts(raw)
        IN /\ \A u \in CountedUrls :
                 /\ u \in DOMAIN counts
                 /\ counts[u] = Count(AllUrls(raw), u)
           /\ noise_set = { u \in CountedUrls :
                               Count(AllUrls(raw), u)
                                   >= NOISE_ATTACHMENT_THRESHOLD }
-----------------------------------------------------------------------------
(* C21 *)

\* the URLs that occur in the media_urls of the corpus often enough
Frequent ==
    { u \in CountedUrls :
         Count(AllUrls(raw), u) >= NOISE_ATTACHMENT_THRESHOLD }

\* C21: once the tally is done, a counted URL is in the noise set exactly
\* when it occurs 25 times or more in the media_urls of the whole corpus,
\* repeats inside one entry included; every entry, the first one too, is
\* cleaned against that set: its message carries the counted URLs of the
\* entry that occur fewer than 25 times, wherever the other occurrences are.
C21_ThresholdTwoPasses ==
    pc = "clean" =>
        /\ \A u \in CountedUrls : u \in noise_set <=> u \in Frequent
        /\ \A i \in 1..(idx - 1) :
              LET kept == filter_attachments(raw[i].media_urls, Frequent)
              IN IF i \in Range(cleaned) THEN Atts(heap[i]) = kept
                 ELSE kept = <<>>
-----------------------------------------------------------------------------
(* C22 *)

MaxPrefixLen == 2    \* longest raw stream explored with reply/action lines

\* rows whose lines begin with the reply/system-action prefixes, in several
\* letter cases and with the labels that strip_leading_label removes
PrefixPool ==
    { Row("You", << <<"You", "replied", "to", "Alice">>, <<"ok">> >>, <<>>),
      Row("You", << <<"you", "unsent", "a", "message">> >>, <<>>),
      Row("You", << <<"YOU", "Replied", "to", "Alice">>, <<"ok">> >>, <<>>),
      Row("Partner", << <<"Partner", "replied", "to", "Alice">>,
                        <<"hello">> >>, <<>>),
      Row("Partner", << <<PARTNER_NAME, "replied", "to", "Alice">>,
                        <<"hello">> >>, <<>>),
      Row("Partner", << <<"You", "reacted", "to", "Alice">> >>, <<>>),
      Row("Partner", << <<"hello">> >>, <<>>) }

InitPrefix ==
    \E n \in 0..MaxPrefixLen :
      \E f \in [1..n -> PrefixPool], k \in 0..n :
        InitMain([pos \in 1..n |-> Entry(f[pos], pos, k)])

SpecPrefix == InitPrefix /\ [][Next]_vars

\* the line begins, in any letter case, with one of the listed prefixes
PrefixLine(line) ==
    \E prefix \in IGNORE_PREFIXES : StartsWith(Lower(line), Lower(prefix))

RECURSIVE OtherLines(_)
OtherLines(lines) ==
    IF lines = <<>> THEN <<>>
    ELSE IF PrefixLine(Head(lines)) THEN OtherLines(Tail(lines))
    ELSE <<Head(lines)>> \o OtherLines(Tail(lines))

\* C22: a line of an entry that begins, in any letter case, with one of the
\* reply/system-action prefixes contributes nothing to the content: the
\* entry is cleaned as the same entry without these lines is.
C22_PrefixLinesDiscarded ==
    pc = "clean" =>
        \A i \in 1..(idx - 1) :
            LET rest == OtherLines(SplitLines(raw[i].content))
                r == clean_entry([raw[i] EXCEPT !.content = rest], None,
                                 noise_set)
            IN IF i \in Range(cleaned)
               THEN r.has_msg /\ heap[i].content = r.msg.content
               ELSE ~r.has_msg
-----------------------------------------------------------------------------
(* C23 *)

\* the rows cleaned batch by batch: the running timestamp starts at None
\* with the first row of every batch
RECURSIVE CleanApart(_, _, _, _, _, _)
CleanApart(rows, noise, i, ts, h, cl) ==
    IF i > Len(rows) THEN [heap |-> h, cleaned |-> cl]
    ELSE LET start == IF i > 1 /\ rows[i].batch # rows[i - 1].batch
                      THEN None ELSE ts
             r == clean_entry(rows[i], start, noise)
         IN IF r.has_msg
            THEN CleanApart(rows, noise, i + 1, r.ts, h @@ (i :> r.msg),
                            Append(cl, i))
            ELSE CleanApart(rows, noise, i + 1, r.ts, h, cl)

Apart == CleanApart(SubSeq(raw, 1, idx - 1), noise_set, 1, None, <<>>, <<>>)

\* a timestamp label stands in the rows of the batch of row i, up to row i
LabelInBatch(i) ==
    \E j \in 1..i : raw[j].batch = raw[i].batch /\ HasLabel(j)

\* C23 (as stated): cleaning each batch on its own, the running timestamp
\* starting at none for each batch, gives the same cleaned messages,
\* timestamps included, as the single scan over the whole stream.
C23_BatchIndependent ==
    pc = "clean" =>
        LET a == Apart
        IN /\ a.cleaned = cleaned
           /\ \A i \in Range(cleaned) : a.heap[i] = heap[i]

\* C23 (amended): cleaning each batch on its own gives the same messages as
\* the single scan in every field but the timestamp; the timestamps agree
\* for a message with a timestamp label before it (or in it) in its own
\* batch, and a message without one has "Unknown Time" when its batch is
\* cleaned alone.
C23_BatchIndependentButTimestamp ==
    pc = "clean" =>
        LET a == Apart
        IN /\ a.cleaned = cleaned
           /\ \A i \in Range(cleaned) :
                 /\ [a.heap[i] EXCEPT !.timestamp = None]
                       = [heap[i] EXCEPT !.timestamp = None]
                 /\ LabelInBatch(i) => a.heap[i].timestamp = heap[i].timestamp
                 /\ ~LabelInBatch(i) => a.heap[i].timestamp = UnknownTime

\* the first message of the second batch has no label of its own batch and
\* carries the label of the first batch; a later one has a label of its own
C23_Witness ==
    /\ pc = "clean"
    /\ idx > Len(raw)
    /\ \E i, j \in Range(cleaned) :
          /\ i < j
          /\ raw[i].batch = BatchB
          /\ raw[j].batch = BatchB
          /\ ~LabelInBatch(i)
          /\ heap[i].timestamp = Ts1
          /\ Apart.heap[i].timestamp = UnknownTime
          /\ LabelInBatch(j)
          /\ heap[j].timestamp = Ts2
-----------------------------------------------------------------------------
(* C24 *)

\* the message has the content, attachments and timestamp of m
SameVisible(m, n) ==
    /\ m.content = n.content
    /\ Atts(m) = Atts(n)
    /\ m.timestamp = n.timestamp

\* C24: group_messages and dedupe_capture_artifacts leave their input as it
\* is: every message of the sequence handed to the stage has, after the
\* stage, the content, attachments and timestamp it had before.
C24_InputsNotMutated ==
    [][/\ pc = "clean" /\ pc' = "dedupe"
          => \A i \in Range(cleaned) : SameVisible(heap'[i], heap[i])
       /\ pc = "artifacts"
          => \A i \in Range(deduped) : SameVisible(heap'[i], heap[i])]_vars
-----------------------------------------------------------------------------
(* C25 *)

\* every item of out is an item of in, none is there twice, and out is not
\* longer than in
DrawnFrom(out, in) ==
    /\ Len(out) <= Len(in)
    /\ Range(out) \subseteq Range(in)
    /\ \A a, b \in 1..Len(out) : a # b => out[a] # out[b]

\* C25: the rows cleaned so far yield at most one message each, and at every
\* stage boundary the stage's output is drawn from its input, no message
\* twice, so that the counts satisfy raw >= cleaned >= grouped >= after
\* consecutive dedup >= after capture-artifact dedup.
C25_CountsNeverGrow ==
    /\ DrawnFrom(cleaned, [i \in 1..(idx - 1) |-> i])
    /\ pc \in {"dedupe", "artifacts", "strip", "done"}
          => DrawnFrom(grouped, cleaned)
    /\ pc \in {"artifacts", "strip", "done"} => DrawnFrom(deduped, grouped)
    /\ pc \in {"strip", "done"} => DrawnFrom(final, deduped)
    /\ Done =>
          /\ DrawnFrom(output, final)
          /\ Len(raw) >= Len(cleaned)
          /\ Len(cleaned) >= Len(grouped)
          /\ Len(grouped) >= Len(deduped)
          /\ Len(deduped) >= Len(final)

\* a run in which the grouper and the capture-artifact stage both drop
\* messages
C25_Witness ==
    /\ Done
    /\ Len(cleaned) > Len(grouped)
    /\ Len(deduped) > Len(final)
    /\ Len(final) > 1
-----------------------------------------------------------------------------
(* C26 *)

MaxSenderLen == 3    \* longest raw stream explored with every kind of sender

\* rows sent under the role, under the display name, under another name and
\* without a sender
SenderPool ==
    { Row("Partner", <<<<"hello">>>>, <<>>),
      Row(PARTNER_NAME, <<<<"hello">>>>, <<>>),
      Row(Missing, <<<<"hello">>>>, <<>>),
      Row("You", <<<<"ok">>>>, <<>>),
      Row("Alice", <<<<"hello">>>>, <<>>) }

InitSender ==
    \E n \in 0..MaxSenderLen :
      \E f \in [1..n -> SenderPool], k \in 0..n :
        InitMain([pos \in 1..n |-> Entry(f[pos], pos, k)])

SpecSender == InitSender /\ [][Next]_vars

\* raw row i was sent by the partner, under the role or the display name
PartnerRow(i) == raw[i].sender \in {"Partner", PARTNER_NAME}

\* C26: the sender of a message is the display name when the entry's sender
\* is "Partner", "Unknown" when the entry has no sender and the entry's
\* sender otherwise, never "Partner"; neighbours sent as "Partner" and under
\* the display name are grouped into one block, and of two blocks of one
\* batch with the same normalized content, one sent as "Partner" and one
\* under the display name, the later is dropped as a capture artifact.
C26_SenderNormalized ==
    /\ \A i \in Range(cleaned) :
          /\ heap[i].sender # "Partner"
          /\ heap[i].sender =
                IF raw[i].sender = "Partner" THEN PARTNER_NAME
                ELSE IF raw[i].sender = Missing THEN "Unknown"
                ELSE raw[i].sender
    /\ pc \in {"dedupe", "artifacts", "strip", "done"} =>
          \A k \in 1..(Len(cleaned) - 1) :
              PartnerRow(cleaned[k]) /\ PartnerRow(cleaned[k + 1])
              => cleaned[k + 1] \notin Range(grouped)
    /\ pc \in {"strip", "done"} =>
          \A a, b \in 1..Len(deduped) :
              ( /\ a < b
                /\ PartnerRow(deduped[a])
                /\ PartnerRow(deduped[b])
                /\ raw[deduped[a]].batch = raw[deduped[b]].batch
                /\ norm_text(heap[deduped[a]].content)
                      = norm_text(heap[deduped[b]].content) )
              => deduped[b] \notin Range(final)

\* "Partner", then an entry without sender, then the display name, all of
\* one batch with the same text: the third is a repeat of the first
C26_Witness ==
    /\ Done
    /\ Len(raw) = 3
    /\ raw[1].sender = "Partner"
    /\ raw[2].sender = Missing
    /\ raw[3].sender = PARTNER_NAME
    /\ deduped = <<1, 2, 3>>
    /\ output = <<1, 2>>
    /\ Out(1).sender = PARTNER_NAME
    /\ Out(2).sender = "Unknown"
-----------------------------------------------------------------------------
(* C27 *)

MaxKeyLen == 3       \* longest raw stream explored with differently written texts

\* one text written on one line, on two lines, and with the display name
\* inside it; a shorter text; another sender
KeyPool ==
    { Row("Partner", << <<"hello", "there">> >>, <<>>),
      Row("Partner", << <<"hello">>, <<"there">> >>, <<>>),
      Row("Partner", << <<"hello", PARTNER_NAME, "there">> >>, <<>>),
      Row("Partner", << <<"hello", PARTNER_NAME>>, <<"there">> >>, <<Img1>>),
      Row("Partner", << <<"hello">> >>, <<>>),
      Row("You", << <<"ok">> >>, <<>>) }

InitKey ==
    \E n \in 0..MaxKeyLen :
      \E f \in [1..n -> KeyPool], k \in 0..n :
        InitMain([pos \in 1..n |-> Entry(f[pos], pos, k)])

SpecKey == InitKey /\ [][Next]_vars

\* the words of a content other than the display name, whatever blanks or
\* line breaks separate them
WordsOf(content) ==
    SelectSeq(Concat(content), LAMBDA w : w # PARTNER_NAME)

\* two blocks of one sender and one batch whose contents differ at most in
\* blanks, line breaks and occurrences of the display name
SameWords(m, n) ==
    /\ m.sender = n.sender
    /\ m._source_batch = n._source_batch
    /\ WordsOf(m.content) = WordsOf(n.content)

-----------------------------------------------------------------------------
(* C28 *)

\* C28: after group_messages no two neighbours among the blocks have the
\* same sender; grouping the blocks again changes nothing, and
\* dedupe_consecutive keeps every block of the grouper's output.
C28_NoAdjacentSameSender ==
    /\ pc \in {"dedupe", "artifacts", "strip", "done"} =>
          \A k \in 1..(Len(grouped) - 1) :
              heap[grouped[k]].sender # heap[grouped[k + 1]].sender
    /\ pc = "dedupe" =>
          group_messages(heap, grouped) = [heap |-> heap, out |-> grouped]
    /\ pc \in {"artifacts", "strip", "done"} => deduped = grouped

\* two neighbours with the same sender and the same text were cleaned, the
\* grouper made one block of them, and every block passed dedupe_consecutive
C28_Witness ==
    /\ pc = "artifacts"
    /\ Len(grouped) >= 2
    /\ deduped = grouped
    /\ \E k \in 1..(Len(cleaned) - 1) :
          /\ Cleaned(cleaned[k]).msg.sender = Cleaned(cleaned[k + 1]).msg.sender
          /\ Cleaned(cleaned[k]).msg.content = Cleaned(cleaned[k + 1]).msg.content
          /\ cleaned[k + 1] \notin Range(grouped)
-----------------------------------------------------------------------------
(* C29 *)

\* "text" with a content, "media" with attachments and no content
TypeMatches(m) ==
    /\ m.type \in {"text", "media"}
    /\ m.type = "text" <=> m.content # <<>>
    /\ m.type = "media" <=> (m.content = <<>> /\ Atts(m) # <<>>)

\* C29: every message of the cleaned sequence, every block of the grouped
\* sequence and every message of the final output has the type "text"
\* exactly when its content is not empty, and "media" exactly when it is
\* empty (its attachments are not, then).
C29_TypeMatchesContent ==
    /\ pc = "clean" => \A i \in Range(cleaned) : TypeMatches(heap[i])
    /\ pc \in {"dedupe", "artifacts", "strip"} =>
          \A i \in Range(grouped) : TypeMatches(heap[i])
    /\ Done => \A k \in 1..Len(output) : TypeMatches(Out(k))
-----------------------------------------------------------------------------
(* C30 *)

\* the block has the source fields of raw row i
SourceOf(m, i) ==
    /\ m._source_batch = raw[i].batch
    /\ m._source_part = raw[i].part
    /\ m._source_index = raw[i].index

\* every block is the first message of its run and has the source of its row
FirstSource ==
    pc \in {"dedupe", "artifacts", "strip"} =>
        \A id \in Range(grouped) :
            /\ \E k \in 1..Len(cleaned) : cleaned[k] = id /\ RunStart(k)
            /\ SourceOf(heap[id], id)

\* C30: a block has the _source_batch, _source_part and _source_index of
\* the first message of its run, whatever was merged into it, and the
\* capture-artifact stage drops a block exactly when an earlier block with
\* its sender and normalized content has a first message of the same batch,
\* wherever the merged contents come from.
C30_BlockProvenance ==
    /\ []FirstSource
    /\ [][pc = "artifacts" =>
            \A b \in 1..Len(deduped) :
                deduped[b] \notin Range(final')
                <=> \E a \in 1..(b - 1) :
                       /\ heap[deduped[a]].sender = heap[deduped[b]].sender
                       /\ WordsOf(heap[deduped[a]].content)
                             = WordsOf(heap[deduped[b]].content)
                       /\ raw[deduped[a]].batch = raw[deduped[b]].batch]_vars

\* a block that begins in the first batch without text and takes its text
\* from a row of the second batch is dropped as a repeat of a block of the
\* first batch
C30_Witness ==
    /\ pc = "strip"
    /\ \E a, b \in 1..Len(deduped) :
          /\ a < b
          /\ deduped[a] \in Range(final)
          /\ deduped[b] \notin Range(final)
          /\ raw[deduped[a]].batch = BatchA
          /\ raw[deduped[b]].batch = BatchA
          /\ Cleaned(deduped[b]).msg.content = <<>>
          /\ deduped[b] + 1 \in Range(cleaned)
          /\ raw[deduped[b] + 1].batch = BatchB
          /\ heap[deduped[b]].content = Cleaned(deduped[b] + 1).msg.content
          /\ heap[deduped[b]].content # <<>>

====
